---- MODULE Spec2Model ----
(***************************************************************************)
(* A model of cytominer_eval's ranking metrics: precision_recall with its  *)
(* per-group calculators calculate_precision_recall and                    *)
(* calculate_average_precision, and enrichment.                            *)
(*                                                                         *)
(* A table is a sequence of rows.  A quotient is kept exact as a pair      *)
(* <<numerator, denominator>>; <<0, 0>> is the NaN that a float 0/0 gives. *)
(***************************************************************************)
EXTENDS Integers, Sequences, FiniteSets, TLC

\* Largest number of rows of a table handed to precision_recall.
MaxRows == 3
\* Largest integer k asked of precision_recall.
MaxK == 2
\* Percentiles are the multiples of 1/PDen in [0, 1].
PDen == 2

\* The samples on the A side of a pair (the groupby column).
Samples == {1, 2}
\* The profiles whose pairs enrichment's table holds.
Profiles == {1, 2, 3}
\* Similarity scores of precision_recall's tables: two negative ones, zero
\* and a positive one.
Scores == {-2, -1, 0, 1}
\* Similarity scores of enrichment's tables.
EnrichmentScores == {-1, 0, 1}

VARIABLES
  entry,                 \* the public operation that was called
  shape,                 \* which columns the caller's table has
  similarity_melted_df,  \* the caller's table
  k,                     \* precision_recall's argument k
  percentile,            \* enrichment's argument percentile
  pc,                    \* position in the running call
  err,                   \* the exception that ended the call, "none" otherwise
  steps,                 \* what has been done to the table so far, in order
  sorted_df,             \* precision_recall's local table after line 49
  replicate_truth_df,    \* enrichment's labeled table
  todo,                  \* the values the loop has still to visit
  precision_recall_df,   \* rows accumulated by precision_recall's loop
  ap_df,                 \* rows of the average precision table
  ap_groups,             \* each group's rows as calculate_average_precision left them
  result                 \* rows accumulated by enrichment's loop

vars == <<entry, shape, similarity_melted_df, k, percentile, pc, err, steps,
          sorted_df, replicate_truth_df, todo, precision_recall_df, ap_df,
          ap_groups, result>>

----------------------------------------------------------------------------
(* Helpers on sequences and quotients.                                     *)

RECURSIVE SumSeq(_)
SumSeq(s) == IF s = <<>> THEN 0 ELSE Head(s) + SumSeq(Tail(s))

RECURSIVE Fact(_)
Fact(n) == IF n <= 1 THEN 1 ELSE n * Fact(n - 1)

\* s[:n] of Python: the first n elements, all of them when n exceeds the length.
Prefix(s, n) == SubSeq(s, 1, IF n < Len(s) THEN n ELSE Len(s))

\* The flags of a table's group_replicate column as 0/1, as Python's sum reads them.
Flags(t) == [i \in 1..Len(t) |-> IF t[i].group_replicate THEN 1 ELSE 0]

\* Equality of two quotients as numbers (NaN equals nothing).
SameValue(q, r) == q[2] # 0 /\ r[2] # 0 /\ q[1] * r[2] = r[1] * q[2]
IsNaN(q) == q[2] = 0

----------------------------------------------------------------------------
(* assign_replicates: adds the column group_replicate, true iff the two    *)
(* profiles of the pair have equal replicate-group keys.  No row is        *)
(* dropped.                                                                *)

LabelRow(r) ==
  [x \in (DOMAIN r \ {"same_key"}) \cup {"group_replicate"} |->
     IF x = "group_replicate" THEN r.same_key ELSE r[x]]

assign_replicates(t) == [i \in 1..Len(t) |-> LabelRow(t[i])]

\* assert_melt: passes iff the table has the columns of a melted table.
assert_melt(s) == s = "ok"

----------------------------------------------------------------------------
(* sort_values(by="similarity_metric", ascending=False).  The default sort *)
(* is not stable: any order of the rows that is descending in the score    *)
(* may result.                                                             *)

Orderings(n) == {p \in [1..n -> 1..n] : \A i, j \in 1..n : p[i] = p[j] => i = j}

sort_values(t) ==
  {[i \in 1..Len(t) |-> t[p[i]]] : p \in
     {q \in Orderings(Len(t)) :
        \A i, j \in 1..Len(t) :
          i < j => t[q[i]].similarity_metric >= t[q[j]].similarity_metric}}

----------------------------------------------------------------------------
(* groupby(groupby_cols_suffix): the groups in ascending key order, each   *)
(* holding its rows in the table's order.                                  *)

GroupKeys(t) == {t[i].pair_a : i \in 1..Len(t)}

RECURSIVE SortedKeys(_)
SortedKeys(S) ==
  IF S = {} THEN <<>>
  ELSE LET m == CHOOSE x \in S : \A y \in S : x <= y
       IN <<m>> \o SortedKeys(S \ {m})

IsKey(r, g) == r.pair_a = g

Group(t, g) == SelectSeq(t, LAMBDA r : IsKey(r, g))

----------------------------------------------------------------------------
(* calculate_precision_recall.  Its sums are Python ints, so a zero        *)
(* denominator raises ZeroDivisionError.                                   *)

KInt(n) == [tag |-> "int", n |-> n]
KR == [tag |-> "R"]

\* lines 44-48 and 58-62: the replicates among the first n rows.
NumRecommendedItems(g, n) == SumSeq(Flags(Prefix(g, n)))

\* line 39
TotalRelevantItems(g) == SumSeq(Flags(g))

\* lines 41-54
PrecisionRecallAtK(g, n) ==
  LET total == TotalRelevantItems(g)
      hits  == NumRecommendedItems(g, n)
  IN IF n = 0 \/ total = 0
     THEN [exc |-> "ZeroDivisionError"]
     ELSE [exc |-> "none",
           row |-> [k |-> n, precision |-> <<hits, n>>, recall |-> <<hits, total>>]]

\* PrecisionAtR dividing by the number of rows of the group instead of R.
PrecisionAtR_OverGroupSize(g) ==
  LET R    == TotalRelevantItems(g)
      hits == NumRecommendedItems(g, R)
  IN IF R = 0
     THEN [exc |-> "ZeroDivisionError"]
     ELSE [exc |-> "none", row |-> [R |-> R, precision |-> <<hits, Len(g)>>]]

\* lines 55-68
PrecisionAtR(g) ==
  LET R    == TotalRelevantItems(g)
      hits == NumRecommendedItems(g, R)
  IN IF R = 0
     THEN [exc |-> "ZeroDivisionError"]
     ELSE [exc |-> "none", row |-> [R |-> R, precision |-> <<hits, R>>]]

calculate_precision_recall(g, k_) ==
  IF k_ # KR THEN PrecisionRecallAtK(g, k_.n) ELSE PrecisionAtR(g)

----------------------------------------------------------------------------
(* calculate_average_precision.                                            *)

\* line 10: yscore[yscore < 0] = 0
Clamp(s) == IF s < 0 THEN 0 ELSE s

\* lines 9-10: yscore is the column's own array, so the group's rows change.
ClampRows(g) ==
  [i \in 1..Len(g) |-> [g[i] EXCEPT !.similarity_metric = Clamp(@)]]

\* average_precision_score averaging over all rows instead of the positive ones.
average_precision_score_OverAllRows(g) ==
  LET n    == Len(g)
      D    == Fact(n)
      P    == SumSeq(Flags(g))
      vals == {g[i].similarity_metric : i \in 1..n}
      AtLeast(v) == SelectSeq(g, LAMBDA r : r.similarity_metric >= v)
      Exactly(v) == SelectSeq(g, LAMBDA r : r.similarity_metric = v)
      Term(v) == SumSeq(Flags(Exactly(v))) * SumSeq(Flags(AtLeast(v)))
                   * (D \div Len(AtLeast(v)))
      RECURSIVE Total(_)
      Total(S) == IF S = {} THEN 0
                  ELSE LET v == CHOOSE x \in S : TRUE
                       IN Term(v) + Total(S \ {v})
  IN IF P = 0 THEN <<0, 0>> ELSE <<Total(vals), n * D>>

\* line 12: average_precision_score, the sum over the distinct scores v, from
\* the highest down, of (recall(v) - recall(next higher)) * precision(v), where
\* precision(v) and recall(v) are those of the rows scoring at least v.  With
\* no positive row the recall is 0/0.
average_precision_score(g) ==
  LET n    == Len(g)
      D    == Fact(n)
      P    == SumSeq(Flags(g))
      vals == {g[i].similarity_metric : i \in 1..n}
      AtLeast(v) == SelectSeq(g, LAMBDA r : r.similarity_metric >= v)
      Exactly(v) == SelectSeq(g, LAMBDA r : r.similarity_metric = v)
      Term(v) == SumSeq(Flags(Exactly(v))) * SumSeq(Flags(AtLeast(v)))
                   * (D \div Len(AtLeast(v)))
      RECURSIVE Total(_)
      Total(S) == IF S = {} THEN 0
                  ELSE LET v == CHOOSE x \in S : TRUE
                       IN Term(v) + Total(S \ {v})
  IN IF P = 0 THEN <<0, 0>> ELSE <<Total(vals), P * D>>

\* lines 5-13
calculate_average_precision(g) ==
  [AP |-> average_precision_score(ClampRows(g)), group |-> ClampRows(g)]

----------------------------------------------------------------------------
(* precision_recall.                                                       *)

PRRows ==
  [pair_a : Samples, similarity_metric : Scores, same_key : BOOLEAN]

Tables(Rows, max) == UNION {[1..n -> Rows] : n \in 0..max}

\* The caller's tables, taken up to the order of their rows: line 49 sorts the
\* table before anything reads it, and sort_values above may return every
\* descending order of the same rows.
RowBefore(r, t) ==
  \/ r.pair_a < t.pair_a
  \/ r.pair_a = t.pair_a /\ r.similarity_metric < t.similarity_metric
  \/ /\ r.pair_a = t.pair_a /\ r.similarity_metric = t.similarity_metric
     /\ (r.same_key => t.same_key)

\* A table without the column similarity_metric has no scores to vary.
TablesOfShape(s) ==
  {t \in Tables(PRRows, MaxRows) :
     /\ \A i \in 1..(Len(t) - 1) : RowBefore(t[i], t[i + 1])
     /\ s = "no_similarity_metric" =>
          \A i \in 1..Len(t) : t[i].similarity_metric = 0}

Shapes == {"ok", "no_pair_ids", "no_similarity_metric"}

\* k: an int, the string "R", or a list of these.
KArgs ==
  {[type |-> "int", val |-> <<KInt(n)>>] : n \in 1..MaxK}
    \cup {[type |-> "str", val |-> <<KR>>]}
    \cup {[type |-> "list", val |-> <<>>]}
    \cup {[type |-> "list", val |-> <<KInt(n), KR>>] : n \in 1..MaxK}

InitPR ==
  /\ entry = "precision_recall"
  /\ shape \in Shapes
  /\ similarity_melted_df \in TablesOfShape(shape)
  /\ k \in KArgs
  /\ percentile = [type |-> "none", val |-> <<>>]
  /\ pc = "assign_replicates"
  /\ err = "none"
  /\ steps = <<>>
  /\ sorted_df = <<>>
  /\ replicate_truth_df = <<>>
  /\ todo = <<>>
  /\ precision_recall_df = <<>>
  /\ ap_df = <<>>
  /\ ap_groups = <<>>
  /\ result = <<>>

Raise(e) ==
  /\ err' = e
  /\ pc' = "raised"

\* lines 47-49: label the pairs, then sort by the score, descending.
AssignReplicatesAndSort ==
  /\ entry = "precision_recall"
  /\ pc = "assign_replicates"
  /\ IF shape = "no_similarity_metric"
     THEN /\ Raise("KeyError")
          /\ steps' = steps \o <<"assign_replicates">>
          /\ UNCHANGED sorted_df
     ELSE /\ sorted_df' \in sort_values(assign_replicates(similarity_melted_df))
          /\ steps' = steps \o <<"assign_replicates", "sort_values">>
          /\ pc' = "assert_melt"
          /\ UNCHANGED err
  /\ UNCHANGED <<entry, shape, similarity_melted_df, k, percentile,
                 replicate_truth_df, todo, precision_recall_df, ap_df,
                 ap_groups, result>>

\* line 52
AssertMelt ==
  /\ entry = "precision_recall"
  /\ pc = "assert_melt"
  /\ steps' = steps \o <<"assert_melt">>
  /\ IF assert_melt(shape)
     THEN pc' = "normalize_k" /\ UNCHANGED err
     ELSE Raise("AssertionError")
  /\ UNCHANGED <<entry, shape, similarity_melted_df, k, percentile, sorted_df,
                 replicate_truth_df, todo, precision_recall_df, ap_df,
                 ap_groups, result>>

\* lines 62-63: an int becomes a one-element list; iterating the string "R"
\* yields "R" itself.
NormalizeK ==
  /\ entry = "precision_recall"
  /\ pc = "normalize_k"
  /\ todo' = k.val
  /\ pc' = IF k.val = <<>> THEN "average_precision" ELSE "loop"
  /\ UNCHANGED <<entry, shape, similarity_melted_df, k, percentile, err, steps,
                 sorted_df, replicate_truth_df, precision_recall_df, ap_df,
                 ap_groups, result>>

\* One row of an output table: the group key and the calculator's fields.
OutRow(g, fields) == [pair_a |-> g] @@ fields

\* lines 64-69: one turn of the loop over k, all groups.
PrecisionRecallLoop ==
  /\ entry = "precision_recall"
  /\ pc = "loop"
  /\ todo # <<>>
  /\ LET k_   == Head(todo)
         keys == SortedKeys(GroupKeys(sorted_df))
         at_k == [i \in 1..Len(keys) |->
                    calculate_precision_recall(Group(sorted_df, keys[i]), k_)]
     IN IF \E i \in 1..Len(keys) : at_k[i].exc # "none"
        THEN /\ Raise("ZeroDivisionError")
             /\ UNCHANGED <<todo, precision_recall_df>>
        ELSE /\ precision_recall_df' = precision_recall_df \o
                  [i \in 1..Len(keys) |-> OutRow(keys[i], at_k[i].row)]
             /\ todo' = Tail(todo)
             /\ pc' = IF Tail(todo) = <<>> THEN "average_precision" ELSE "loop"
             /\ UNCHANGED err
  /\ UNCHANGED <<entry, shape, similarity_melted_df, k, percentile, steps,
                 sorted_df, replicate_truth_df, ap_df, ap_groups, result>>

\* lines 72-79
AveragePrecision ==
  /\ entry = "precision_recall"
  /\ pc = "average_precision"
  /\ LET keys == SortedKeys(GroupKeys(sorted_df))
         ap   == [i \in 1..Len(keys) |->
                    calculate_average_precision(Group(sorted_df, keys[i]))]
     IN /\ ap_df' = [i \in 1..Len(keys) |-> [pair_a |-> keys[i], AP |-> ap[i].AP]]
        /\ ap_groups' = [i \in 1..Len(keys) |-> ap[i].group]
  /\ pc' = "done"
  /\ UNCHANGED <<entry, shape, similarity_melted_df, k, percentile, err, steps,
                 sorted_df, replicate_truth_df, todo, precision_recall_df, result>>

NextPR ==
  \/ AssignReplicatesAndSort
  \/ AssertMelt
  \/ NormalizeK
  \/ PrecisionRecallLoop
  \/ AveragePrecision

SpecPR == InitPR /\ [][NextPR]_vars

----------------------------------------------------------------------------
(* enrichment.                                                             *)

\* Series.quantile(p), linear interpolation: with the n scores sorted
\* ascending as x[0..n-1] and h = (n-1)p, x[lo] + (h - lo)(x[lo+1] - x[lo])
\* for lo = floor(h).  p is num/PDen; the result is a quotient over PDen.  An
\* empty column gives NaN.
RECURSIVE Insert(_, _)
Insert(s, x) ==
  IF s = <<>> THEN <<x>>
  ELSE IF x <= Head(s) THEN <<x>> \o s
  ELSE <<Head(s)>> \o Insert(Tail(s), x)

RECURSIVE SortAscending(_)
SortAscending(s) ==
  IF s = <<>> THEN <<>> ELSE Insert(SortAscending(Tail(s)), Head(s))

Column(t) == [i \in 1..Len(t) |-> t[i].similarity_metric]

quantile(t, num) ==
  LET x  == SortAscending(Column(t))
      n  == Len(x)
      h  == (n - 1) * num
      lo == h \div PDen
      r  == h % PDen
  IN IF n = 0 THEN <<0, 0>>
     ELSE IF r = 0 THEN <<x[lo + 1] * PDen, PDen>>
     ELSE <<x[lo + 1] * PDen + r * (x[lo + 2] - x[lo + 1]), PDen>>

\* The comparisons with the rows at the threshold on the wrong side.
AboveOrEqual(s, thr) == thr[2] # 0 /\ s * thr[2] >= thr[1]
StrictlyBelow(s, thr) == thr[2] # 0 /\ s * thr[2] < thr[1]

\* similarity_metric > @threshold and similarity_metric <= @threshold; both are
\* false against NaN.
Above(s, thr) == thr[2] # 0 /\ s * thr[2] > thr[1]
NotAbove(s, thr) == thr[2] # 0 /\ s * thr[2] <= thr[1]

\* lines 50-69: len(query(...)) for one cell of the contingency table.
Cell(t, rep, above, thr) ==
  Len(SelectSeq(t, LAMBDA r :
        /\ r.group_replicate = rep
        /\ IF above THEN Above(r.similarity_metric, thr)
                    ELSE NotAbove(r.similarity_metric, thr)))

\* lines 47-82: one percentile's row.  fisher_table is v/2, the argument of
\* scipy's fisher_exact, whose odds ratio and p-value are not modelled.
EnrichmentRow(truth, melted, num) ==
  LET threshold == quantile(melted, num)
      v11 == Cell(truth, TRUE, TRUE, threshold)
      v12 == Cell(truth, FALSE, TRUE, threshold)
      v21 == Cell(truth, TRUE, FALSE, threshold)
      v22 == Cell(truth, FALSE, FALSE, threshold)
  IN [enrichment_percentile |-> <<num, PDen>>,
      threshold |-> threshold,
      v |-> <<<<v11, v12>>, <<v21, v22>>>>,
      fisher_table |-> <<<<<<v11, 2>>, <<v12, 2>>>>, <<<<v21, 2>>, <<v22, 2>>>>>>]

\* What the table holds of one unordered pair {x, y}, x < y: nothing, the
\* direction (x, y) alone, or both directions with one score and one label.
PairOptions ==
  {[dirs |-> 0, similarity_metric |-> 0, same_key |-> FALSE]}
    \cup [dirs : {1, 2}, similarity_metric : EnrichmentScores, same_key : BOOLEAN]

UnorderedPairs == {pr \in Profiles \X Profiles : pr[1] < pr[2]}

\* The table of a choice c of options, its rows ordered by (pair_a, pair_b).
Holds(c, a, b) ==
  IF a < b THEN c[<<a, b>>].dirs >= 1 ELSE c[<<b, a>>].dirs = 2

PairRow(c, a, b) ==
  LET o == IF a < b THEN c[<<a, b>>] ELSE c[<<b, a>>]
  IN [pair_a |-> a, pair_b |-> b,
      similarity_metric |-> o.similarity_metric, same_key |-> o.same_key]

RECURSIVE Concat(_)
Concat(ss) == IF ss = <<>> THEN <<>> ELSE Head(ss) \o Concat(Tail(ss))

Melted(c) ==
  LET ps == SortedKeys(Profiles)
      RowsOfProfile(a) ==
        LET bs == SelectSeq(ps, LAMBDA b : b # a /\ Holds(c, a, b))
        IN [i \in 1..Len(bs) |-> PairRow(c, a, bs[i])]
  IN Concat([i \in 1..Len(ps) |-> RowsOfProfile(ps[i])])

EnrichmentTables(s) ==
  {Melted(c) : c \in
     {d \in [UnorderedPairs -> PairOptions] :
        s = "no_similarity_metric" =>
          \A pr \in UnorderedPairs : d[pr].similarity_metric = 0}}

\* percentile: a float, an int (0 or 1), or a list of floats; val holds the
\* numerators over PDen.
PercentileArgs ==
  {[type |-> "float", val |-> <<n>>] : n \in 0..PDen}
    \cup {[type |-> "int", val |-> <<n * PDen>>] : n \in {0, 1}}
    \cup {[type |-> "list", val |-> <<>>]}
    \cup {[type |-> "list", val |-> <<n>>] : n \in 0..PDen}
    \cup {[type |-> "list", val |-> <<n, m>>] : n \in 0..PDen, m \in 0..PDen}

InitEnrichment ==
  /\ entry = "enrichment"
  /\ shape \in Shapes
  /\ similarity_melted_df \in EnrichmentTables(shape)
  /\ percentile \in PercentileArgs
  /\ k = [type |-> "none", val |-> <<>>]
  /\ pc = "assign_replicates"
  /\ err = "none"
  /\ steps = <<>>
  /\ sorted_df = <<>>
  /\ replicate_truth_df = <<>>
  /\ todo = <<>>
  /\ precision_recall_df = <<>>
  /\ ap_df = <<>>
  /\ ap_groups = <<>>
  /\ result = <<>>

\* lines 38-41
EnrichmentAssignReplicates ==
  /\ entry = "enrichment"
  /\ pc = "assign_replicates"
  /\ replicate_truth_df' = assign_replicates(similarity_melted_df)
  /\ steps' = steps \o <<"assign_replicates">>
  /\ pc' = "normalize_percentile"
  /\ UNCHANGED <<entry, shape, similarity_melted_df, k, percentile, err,
                 sorted_df, todo, precision_recall_df, ap_df, ap_groups, result>>

\* lines 43-44: only a value whose type is float is wrapped in a list.
IsScalar(p) == p.type = "float"

NormalizePercentile ==
  /\ entry = "enrichment"
  /\ pc = "normalize_percentile"
  /\ todo' = IF IsScalar(percentile) \/ percentile.type = "list"
             THEN percentile.val ELSE <<>>
  /\ pc' = IF (IsScalar(percentile) \/ percentile.type = "list")
              /\ percentile.val = <<>>
           THEN "done" ELSE "loop"
  /\ UNCHANGED <<entry, shape, similarity_melted_df, k, percentile, err, steps,
                 sorted_df, replicate_truth_df, precision_recall_df, ap_df,
                 ap_groups, result>>

\* lines 45-82: one turn of the loop over the percentiles.  An int that was
\* not wrapped cannot be iterated.
EnrichmentLoop ==
  /\ entry = "enrichment"
  /\ pc = "loop"
  /\ IF ~(IsScalar(percentile) \/ percentile.type = "list")
     THEN /\ Raise("TypeError")
          /\ UNCHANGED <<todo, result, steps>>
     ELSE IF shape = "no_similarity_metric"
     THEN /\ Raise("AttributeError")
          /\ UNCHANGED <<todo, result, steps>>
     ELSE /\ result' = Append(result,
                 EnrichmentRow(replicate_truth_df, similarity_melted_df, Head(todo)))
          /\ steps' = steps \o <<"quantile", "count">>
          /\ todo' = Tail(todo)
          /\ pc' = IF Tail(todo) = <<>> THEN "done" ELSE "loop"
          /\ UNCHANGED err
  /\ UNCHANGED <<entry, shape, similarity_melted_df, k, percentile, sorted_df,
                 replicate_truth_df, precision_recall_df, ap_df, ap_groups>>

NextEnrichment ==
  \/ EnrichmentAssignReplicates
  \/ NormalizePercentile
  \/ EnrichmentLoop

SpecEnrichment == InitEnrichment /\ [][NextEnrichment]_vars

----------------------------------------------------------------------------
(* What the claims speak of, stated on the tables themselves rather than   *)
(* through the calculators.                                                *)

\* The positions in the sorted table of group g's rows, of its replicates, and
\* of its first c rows.
RowsOf(g) == {i \in 1..Len(sorted_df) : sorted_df[i].pair_a = g}
ReplicatesOf(g) == {i \in RowsOf(g) : sorted_df[i].group_replicate}
TopOf(g, c) == {i \in RowsOf(g) : Cardinality({j \in RowsOf(g) : j < i}) < c}
HitsOf(g, c) == Cardinality(TopOf(g, c) \cap ReplicatesOf(g))
R_Of(g) == Cardinality(ReplicatesOf(g))

\* The first c rows of the group are c rows of highest similarity.
TopIsHighest(g, c) ==
  \A i \in TopOf(g, c), j \in RowsOf(g) \ TopOf(g, c) :
    sorted_df[i].similarity_metric >= sorted_df[j].similarity_metric

KeysOf == {sorted_df[i].pair_a : i \in 1..Len(sorted_df)}
RankOf(g) == Cardinality({h \in KeysOf : h <= g})

\* How many of the requested k the loop has taken up, the one that raised
\* included.
Attempted ==
  IF entry # "precision_recall" THEN 0
  ELSE IF pc \in {"loop", "average_precision", "done"} THEN Len(k.val) - Len(todo)
  ELSE IF pc = "raised" /\ err = "ZeroDivisionError" THEN Len(k.val) - Len(todo) + 1
  ELSE 0

\* The output row of the j-th requested k and group g.
RowIndex(j, g) == (j - 1) * Cardinality(KeysOf) + RankOf(g)
HasRow(j, g) == RowIndex(j, g) <= Len(precision_recall_df)
RowFor(j, g) == precision_recall_df[RowIndex(j, g)]

\* The position of group g in the average precision table.
APFor(g) == ap_df[RankOf(g)].AP

\* C1: for every group and every integer k >= 1 taken up by precision_recall,
\* the output holds the group's row with precision = hits / k and
\* recall = hits / R, hits being the replicates among the group's k rows of
\* highest similarity (all rows of a shorter group) and R the replicates of
\* the whole group.
C1_PrecisionRecallAtK ==
  \A j \in 1..Attempted :
    k.val[j].tag = "int" =>
      \A g \in KeysOf :
        /\ HasRow(j, g)
        /\ TopIsHighest(g, k.val[j].n)
        /\ RowFor(j, g).pair_a = g
        /\ RowFor(j, g).k = k.val[j].n
        /\ SameValue(RowFor(j, g).precision, <<HitsOf(g, k.val[j].n), k.val[j].n>>)
        /\ RowFor(j, g).precision[2] = k.val[j].n
        /\ \/ SameValue(RowFor(j, g).recall, <<HitsOf(g, k.val[j].n), R_Of(g)>>)
           \/ R_Of(g) = 0 /\ IsNaN(RowFor(j, g).recall)

\* C2: for every group, k = "R" gives a row with the field R (not k) equal to
\* the number of replicates of the group, precision = (replicates among the R
\* rows of highest similarity) / R, and no recall field.
C2_PrecisionAtR ==
  \A j \in 1..Attempted :
    k.val[j] = KR =>
      \A g \in KeysOf :
        /\ HasRow(j, g)
        /\ TopIsHighest(g, R_Of(g))
        /\ DOMAIN RowFor(j, g) = {"pair_a", "R", "precision"}
        /\ RowFor(j, g).pair_a = g
        /\ RowFor(j, g).R = R_Of(g)
        /\ \/ SameValue(RowFor(j, g).precision, <<HitsOf(g, R_Of(g)), R_Of(g)>>)
           \/ R_Of(g) = 0 /\ IsNaN(RowFor(j, g).precision)

\* Every replicate of group g scores strictly higher than every other row of
\* g, the scores read through f.
ReplicatesFirst(g, f(_)) ==
  /\ ReplicatesOf(g) # {}
  /\ \A i \in ReplicatesOf(g), j \in RowsOf(g) \ ReplicatesOf(g) :
       f(sorted_df[i].similarity_metric) > f(sorted_df[j].similarity_metric)

Signed(s) == s
Floored(s) == IF s > 0 THEN s ELSE 0

\* C3 as stated: a group with a replicate whose replicates all score strictly
\* higher than its other rows, negative scores included, has AP = 1.
C3_PerfectRankingAnyScores ==
  (entry = "precision_recall" /\ pc = "done") =>
    \A g \in KeysOf : ReplicatesFirst(g, Signed) => SameValue(APFor(g), <<1, 1>>)

\* C3 amended: a group with a replicate whose replicates all score strictly
\* higher than its other rows once negative scores are floored at zero has
\* AP = 1.
C3_PerfectRankingFlooredScores ==
  (entry = "precision_recall" /\ pc = "done") =>
    \A g \in KeysOf : ReplicatesFirst(g, Floored) => SameValue(APFor(g), <<1, 1>>)

\* A perfectly ranked group that also holds a non-replicate with a negative
\* score has been scored, and its AP is 1.
C3_Witness ==
  /\ entry = "precision_recall"
  /\ pc = "done"
  /\ \E g \in KeysOf :
       /\ ReplicatesFirst(g, Floored)
       /\ \E j \in RowsOf(g) \ ReplicatesOf(g) : sorted_df[j].similarity_metric < 0
       /\ Cardinality(ReplicatesOf(g)) >= 2
       /\ SameValue(APFor(g), <<1, 1>>)

\* C5: a group without replicates does not abort precision_recall: the call
\* returns, that group's undefined metrics are NaN, and every other group has
\* its row with its own values.
C5_DegenerateGroupGivesNaN ==
  (entry = "precision_recall" /\ shape = "ok"
     /\ \E g \in KeysOf : R_Of(g) = 0) =>
    /\ pc # "raised"
    /\ pc = "done" =>
         /\ \A g \in KeysOf : R_Of(g) = 0 => IsNaN(APFor(g))
         /\ \A j \in 1..Len(k.val), g \in KeysOf :
              /\ HasRow(j, g)
              /\ SameValue(RowFor(j, g).precision,
                           IF k.val[j] = KR
                           THEN <<HitsOf(g, R_Of(g)), R_Of(g)>>
                           ELSE <<HitsOf(g, k.val[j].n), k.val[j].n>>)
                 \/ (k.val[j] = KR /\ R_Of(g) = 0 /\ IsNaN(RowFor(j, g).precision))
              /\ k.val[j] # KR =>
                   \/ SameValue(RowFor(j, g).recall,
                                <<HitsOf(g, k.val[j].n), R_Of(g)>>)
                   \/ R_Of(g) = 0 /\ IsNaN(RowFor(j, g).recall)

\* C8: calculate_average_precision leaves the similarity_metric of the rows
\* it is given as they were, negative values included.
C8_GroupUnchanged ==
  (entry = "precision_recall" /\ pc = "done") =>
    \A g \in KeysOf :
      LET before == {<<Cardinality({j \in RowsOf(g) : j <= i}),
                       sorted_df[i].similarity_metric>> : i \in RowsOf(g)}
          after  == {<<i, ap_groups[RankOf(g)][i].similarity_metric>> :
                       i \in 1..Len(ap_groups[RankOf(g)])}
      IN before = after

\* C10: for a group with R >= 1 replicates, the precision at k = "R" equals
\* the precision and the recall at the integer k = R, and the field R equals
\* that integer.
C10_BranchesAgreeAtR ==
  \A g \in KeysOf, i \in 1..Attempted, j \in 1..Attempted :
    (/\ HasRow(i, g) /\ HasRow(j, g)
     /\ R_Of(g) >= 1
     /\ k.val[i] = KR
     /\ k.val[j] = KInt(R_Of(g))) =>
      /\ RowFor(i, g).R = RowFor(j, g).k
      /\ SameValue(RowFor(i, g).precision, RowFor(j, g).precision)
      /\ SameValue(RowFor(i, g).precision, RowFor(j, g).recall)

\* Both branches have run on a group with two replicates of which only one is
\* among its first two rows.
C10_Witness ==
  /\ entry = "precision_recall"
  /\ pc = "done"
  /\ k = [type |-> "list", val |-> <<KInt(2), KR>>]
  /\ \E g \in KeysOf :
       /\ R_Of(g) = 2
       /\ HasRow(1, g) /\ HasRow(2, g)
       /\ RowFor(2, g).R = 2
       /\ RowFor(2, g).precision = <<1, 2>>

----------------------------------------------------------------------------
(* enrichment's claims, stated on the caller's table.                      *)

\* The rows of the caller's table, by position.
AllRows == 1..Len(similarity_melted_df)
ScoreAt(i) == similarity_melted_df[i].similarity_metric
LabelAt(i) == similarity_melted_df[i].same_key

\* The m-th smallest score of the table, m in 1..Len.
OrderStatistic(m) ==
  CHOOSE x \in {ScoreAt(i) : i \in AllRows} :
    /\ Cardinality({i \in AllRows : ScoreAt(i) < x}) < m
    /\ m <= Cardinality({i \in AllRows : ScoreAt(i) <= x})

\* q is the (num/PDen)-quantile of the table's scores: the point at num/PDen
\* of the line through the order statistics, NaN for an empty table.
IsQuantile(q, num) ==
  LET n  == Len(similarity_melted_df)
      lo == ((n - 1) * num) \div PDen
      r  == ((n - 1) * num) % PDen
  IN IF n = 0 THEN IsNaN(q)
     ELSE /\ q[2] = PDen
          /\ q[1] = IF r = 0 THEN PDen * OrderStatistic(lo + 1)
                    ELSE (PDen - r) * OrderStatistic(lo + 1)
                           + r * OrderStatistic(lo + 2)

\* The rows of I with label rep that lie above (or, not above) the quotient q.
CountOver(I, rep, above, q) ==
  Cardinality({i \in I :
     /\ LabelAt(i) = rep
     /\ q[2] # 0
     /\ IF above THEN ScoreAt(i) * q[2] > q[1] ELSE ScoreAt(i) * q[2] <= q[1]})

\* The percentiles asked for, in the order asked.
Requested == percentile.val

\* C4: every row of enrichment's result is the row of the percentile asked for
\* at its position: its threshold is that quantile of the whole table's
\* scores, its four counts are taken over the whole labeled table with the
\* rows at the threshold in the lower row, and it does not depend on the other
\* percentiles; a finished call has one row per percentile.
C4_ContingencyCounts ==
  entry = "enrichment" =>
    /\ Len(result) <= Len(Requested)
    /\ (pc = "done" => Len(result) = Len(Requested))
    /\ \A i \in 1..Len(result) :
         /\ result[i].enrichment_percentile = <<Requested[i], PDen>>
         /\ IsQuantile(result[i].threshold, Requested[i])
         /\ result[i].v[1][1] = CountOver(AllRows, TRUE, TRUE, result[i].threshold)
         /\ result[i].v[1][2] = CountOver(AllRows, FALSE, TRUE, result[i].threshold)
         /\ result[i].v[2][1] = CountOver(AllRows, TRUE, FALSE, result[i].threshold)
         /\ result[i].v[2][2] = CountOver(AllRows, FALSE, FALSE, result[i].threshold)
         /\ result[i].v[1][1] + result[i].v[1][2] + result[i].v[2][1]
              + result[i].v[2][2] = Len(similarity_melted_df)
         /\ \A j \in 1..Len(result) :
              Requested[i] = Requested[j] => result[i] = result[j]

\* Two percentiles have been worked off on a table holding a replicate at the
\* first threshold (counted in the lower row) and one above it.
C4_Witness ==
  /\ entry = "enrichment"
  /\ pc = "done"
  /\ Len(result) = 2
  /\ result[1].threshold # result[2].threshold
  /\ result[1].v[1][1] >= 1
  /\ \E i \in AllRows :
       /\ LabelAt(i)
       /\ ScoreAt(i) * PDen = result[1].threshold[1]
  /\ result[1].threshold[1] % PDen # 0 \/ result[2].threshold[1] % PDen # 0

\* C6: a scalar percentile, whole numbers 0 and 1 included, is treated as the
\* one-element list: the call succeeds and returns exactly one row, for that
\* percentile.
C6_ScalarPercentile ==
  (entry = "enrichment" /\ percentile.type \in {"float", "int"}
     /\ shape # "no_similarity_metric") =>
    /\ pc # "raised"
    /\ pc = "done" =>
         /\ Len(result) = 1
         /\ result[1].enrichment_percentile = <<percentile.val[1], PDen>>

\* The table holds both directions of every pair it holds, with one score and
\* one label, and no pair of a profile with itself.
PerfectlySymmetric ==
  /\ \A i \in AllRows : similarity_melted_df[i].pair_a # similarity_melted_df[i].pair_b
  /\ \A i, j \in AllRows :
       (/\ similarity_melted_df[i].pair_a = similarity_melted_df[j].pair_a
        /\ similarity_melted_df[i].pair_b = similarity_melted_df[j].pair_b) => i = j
  /\ \A i \in AllRows : \E j \in AllRows :
       /\ similarity_melted_df[j].pair_a = similarity_melted_df[i].pair_b
       /\ similarity_melted_df[j].pair_b = similarity_melted_df[i].pair_a
       /\ ScoreAt(j) = ScoreAt(i)
       /\ LabelAt(j) = LabelAt(i)

\* One direction of each unordered pair.
OneDirection ==
  {i \in AllRows : similarity_melted_df[i].pair_a < similarity_melted_df[i].pair_b}

\* C7: on a perfectly symmetric table each of the four counts is even and is
\* twice the count over one direction of each pair, so the halved cells handed
\* to the test are whole.
C7_CountsAreDoubled ==
  (entry = "enrichment" /\ PerfectlySymmetric) =>
    \A i \in 1..Len(result), a \in {1, 2}, b \in {1, 2} :
      /\ result[i].v[a][b] % 2 = 0
      /\ result[i].v[a][b] =
           2 * CountOver(OneDirection, b = 1, a = 1, result[i].threshold)
      /\ result[i].fisher_table[a][b][1] = result[i].v[a][b]
      /\ result[i].fisher_table[a][b][2] = 2

\* A symmetric table of two pairs or more has been counted, with rows in the
\* upper and in the lower row of the contingency table.
C7_Witness ==
  /\ entry = "enrichment"
  /\ pc = "done"
  /\ PerfectlySymmetric
  /\ Len(similarity_melted_df) >= 4
  /\ \E i \in 1..Len(result) :
       /\ result[i].v[1][1] >= 2
       /\ result[i].v[2][2] >= 2
       /\ result[i].v[2][1] >= 2

\* C9: in precision_recall and in enrichment the check of the table's columns
\* comes before anything is computed on the table, and a table that fails it
\* ends the call at that check.
C9_ValidationFirst ==
  /\ steps # <<>> => steps[1] = "assert_melt"
  /\ (shape # "ok" /\ pc \in {"done", "raised"}) =>
       (err = "AssertionError" /\ steps = <<"assert_melt">>)

====
